---------------------------- MODULE Spec2Model ----------------------------
(***************************************************************************)
(* Model of BayesianRegression (Bayesian Linear Regression/                *)
(* bayesian_regression.py): construction, fit (the evidence-approximation  *)
(* loop followed by the posterior parameters), predict and predict_dist.   *)
(*                                                                         *)
(* Floating-point numbers are modelled as fixed-point numbers: the integer *)
(* v stands for the real v / SCALE, and every arithmetic operation rounds  *)
(* its result down to a multiple of 1 / SCALE, as a float operation rounds *)
(* to the nearest float.  Vectors are sequences, matrices are sequences of *)
(* rows.                                                                   *)
(***************************************************************************)
EXTENDS Integers, Sequences, FiniteSets

\* ------------------------------------------------------------------------
\* Bounds of the model
\* ------------------------------------------------------------------------

\* largest max_iter passed to fit
MaxIter == 3

\* largest number of fit calls on one instance
MaxFits == 2

\* ------------------------------------------------------------------------
\* Scalar arithmetic
\* ------------------------------------------------------------------------

\* resolution of the fixed-point numbers
SCALE == 1000

\* ln 2 and 2 pi, as fixed-point numbers
LN2 == 693

TWO_PI == 6283

\* -inf, the seed of the log-evidence trace: below every value the model computes
NINF == -2000000000

\* w_mu, w_precision, D before the first fit
None == <<>>

Fix(k) == k * SCALE

FMul(a, b) == (a * b) \div SCALE

FDiv(a, b) == (a * SCALE) \div b

Half(a) == a \div 2

Max(a, b) == IF a >= b THEN a ELSE b

RECURSIVE SqrtBetween(_, _, _)
\* the largest r in lo..hi with r * r <= t
SqrtBetween(t, lo, hi) ==
    IF lo >= hi THEN lo
    ELSE LET mid == (lo + hi + 1) \div 2
         IN  IF mid * mid <= t THEN SqrtBetween(t, mid, hi)
             ELSE SqrtBetween(t, lo, mid - 1)

\* square root of a fixed-point number a >= 0
FSqrt(a) == SqrtBetween(a * SCALE, 0, 40000)

RECURSIVE LnNorm(_, _)
\* ln of a fixed-point number a > 0: a is brought into [1, 2) by halving and
\* doubling (each step adds or removes ln 2), then ln a = 2 atanh((a-1)/(a+1))
LnNorm(a, k) ==
    IF a >= 2 * SCALE THEN LnNorm(a \div 2, k + 1)
    ELSE IF a < SCALE THEN LnNorm(a * 2, k - 1)
    ELSE LET z  == FDiv(a - SCALE, a + SCALE)
             z2 == FMul(z, z)
             z3 == FMul(z2, z)
             z5 == FMul(z3, z2)
         IN  k * LN2 + 2 * (z + (z3 \div 3) + (z5 \div 5))

Ln(a) == LnNorm(a, 0)

\* ------------------------------------------------------------------------
\* Vectors and matrices
\* ------------------------------------------------------------------------

RECURSIVE Tuple(_, _)
\* the first k values of the function f, as a sequence
Tuple(f, k) == IF k = 0 THEN <<>> ELSE Append(Tuple(f, k - 1), f[k])

\* the sequence [k \in 1..len |-> ...], computed once
Vec(f) == Tuple(f, Len(f))

RECURSIVE SumTo(_, _)
SumTo(s, k) == IF k = 0 THEN 0 ELSE SumTo(s, k - 1) + s[k]

SumSeq(s) == SumTo(s, Len(s))

RECURSIVE DotTo(_, _, _)
DotTo(a, b, k) == IF k = 0 THEN 0 ELSE DotTo(a, b, k - 1) + FMul(a[k], b[k])

\* np.dot of two vectors
Dot(a, b) == DotTo(a, b, Len(a))

Transpose(M) ==
    Vec([c \in 1..Len(M[1]) |-> Vec([r \in 1..Len(M) |-> M[r][c]])])

\* np.dot of a matrix and a vector
MatVec(M, w) == Vec([r \in 1..Len(M) |-> Dot(M[r], w)])

\* np.dot of two matrices
MatMul(A, B) ==
    LET Bt == Transpose(B)
    IN  Vec([r \in 1..Len(A) |-> Vec([c \in 1..Len(Bt) |-> Dot(A[r], Bt[c])])])

\* np.diag
Diag(w) ==
    Vec([r \in 1..Len(w) |-> Vec([c \in 1..Len(w) |-> IF r = c THEN w[r] ELSE 0])])

\* np.eye
Eye(k) == Diag(Vec([j \in 1..k |-> SCALE]))

VSub(a, b) == Vec([k \in 1..Len(a) |-> a[k] - b[k]])

Scalar(c, w) == Vec([k \in 1..Len(w) |-> FMul(c, w[k])])

MatAdd(A, B) ==
    Vec([r \in 1..Len(A) |-> Vec([c \in 1..Len(A[1]) |-> A[r][c] + B[r][c]])])

MatScale(c, A) == Vec([r \in 1..Len(A) |-> Scalar(c, A[r])])

\* ------------------------------------------------------------------------
\* The instance (self), the running fit call, and the last call's result
\* ------------------------------------------------------------------------

VARIABLES
    mu_X, X, mu_Y, Y, thresh, bias_term, u, d, v,   \* set by __init__
    alpha, beta, lambda_0,
    w_mu, w_precision, D, diag,
    logLike, perfect_fit,
    pc,                  \* "idle", or the place of the running fit call
    method, max_iter,    \* arguments of the last fit call
    i, l_alpha, l_beta,  \* locals i, alpha, beta of _evidence_approx
    ret,                 \* what the last call returned or raised
    \* history variables, read by the properties only
    nfits,               \* fit calls so far
    completed,           \* loop iterations that ran to their end, over all fits
    exit_by,             \* how the last loop ended
    pre,                 \* alpha, beta, logLike when the last fit was called
    start                \* the locals and the trace length when the last
                         \* iteration started

self_init == <<mu_X, X, mu_Y, Y, u, d, v>>

self_cfg  == <<thresh, bias_term, lambda_0>>

self_post == <<w_mu, w_precision, D, diag>>

locals    == <<method, max_iter, i, l_alpha, l_beta>>

history   == <<nfits, completed, exit_by, pre, start>>

vars == <<self_init, self_cfg, alpha, beta, self_post, logLike, perfect_fit,
          pc, locals, ret, history>>

\* ------------------------------------------------------------------------
\* __init__
\* ------------------------------------------------------------------------

\* np.mean(X, axis = 0)
ColMean(Xr) ==
    Vec([c \in 1..Len(Xr[1]) |->
           SumSeq([r \in 1..Len(Xr) |-> Xr[r][c]]) \div Len(Xr)])

\* np.mean(Y)
Mean(Yr) == SumSeq(Yr) \div Len(Yr)

\* X - np.outer(mu_X, np.ones(n)).T
Center(Xr, mu) ==
    Vec([r \in 1..Len(Xr) |-> Vec([c \in 1..Len(Xr[1]) |-> Xr[r][c] - mu[c]])])

\* The order of the singular values: descending.  For one or two columns.
SvdOrder(nrm) ==
    IF Len(nrm) = 2 /\ nrm[2] > nrm[1] THEN <<2, 1>>
    ELSE Vec([j \in 1..Len(nrm) |-> j])

\* np.linalg.svd(Xc, full_matrices = False) of a matrix Xc with one column, or
\* with two orthogonal columns: the singular values are the norms of the
\* columns, in descending order; u holds the normalised columns; v (the
\* transposed right factor, as numpy returns it) is the permutation that
\* orders them.  Xc = u . diag(d) . v.
svd(Xc) ==
    LET cols == Transpose(Xc)
        nrm  == Vec([j \in 1..Len(cols) |-> FSqrt(Dot(cols[j], cols[j]))])
        ord  == SvdOrder(nrm)
        k    == Len(cols)
    IN  [u |-> Vec([r \in 1..Len(Xc) |->
                      Vec([j \in 1..k |-> FDiv(cols[ord[j]][r], nrm[ord[j]])])]),
         d |-> Vec([j \in 1..k |-> nrm[ord[j]]]),
         v |-> Vec([j \in 1..k |->
                      Vec([c \in 1..k |-> IF c = ord[j] THEN SCALE ELSE 0])])]

\* Training data (X, Y), as the caller passes them: n = 4 rows, m = 1 or 2
\* features.  "noisy": a line plus noise.  "linear": Y = 2 X + 1 exactly.
\* "plane": two features, a plane plus noise.
Datasets ==
    { [X |-> <<<<0>>, <<0>>, <<2>>, <<2>>>>, Y |-> <<1, 3, 5, 8>>],
      [X |-> <<<<0>>, <<0>>, <<2>>, <<2>>>>, Y |-> <<1, 1, 5, 5>>],
      [X |-> <<<<0, 0>>, <<0, 4>>, <<2, 0>>, <<2, 4>>>>, Y |-> <<1, 3, 5, 8>>] }

\* thresh: 0, or 0.028 (an increment that the log-evidence of the noisy line
\* takes between two iterations)
Thresholds == {0, 28}

\* lambda_0: 0.01, or 0.5
Floors == {10, 500}

ToFix(M) == Vec([r \in 1..Len(M) |-> Vec([c \in 1..Len(M[1]) |-> Fix(M[r][c])])])

Init ==
    \E data \in Datasets, flag \in BOOLEAN, th \in Thresholds, fl \in Floors :
        LET Xr  == ToFix(data.X)
            Yr  == [r \in 1..Len(data.Y) |-> Fix(data.Y[r])]
            mX  == ColMean(Xr)
            Xc  == Center(Xr, mX)
            dec == svd(Xc)
        IN  /\ mu_X = mX
            /\ X = Xc
            /\ mu_Y = Mean(Yr)
            /\ Y = [r \in 1..Len(Yr) |-> Yr[r] - Mean(Yr)]
            /\ thresh = th
            /\ bias_term = IF flag THEN <<Mean(Yr)>> ELSE <<>>
            /\ u = dec.u
            /\ d = dec.d
            /\ v = dec.v
            /\ alpha = Fix(1)
            /\ beta = Fix(1)
            /\ lambda_0 = fl
            /\ w_mu = None
            /\ w_precision = None
            /\ D = None
            /\ diag = None
            /\ logLike = <<NINF>>
            /\ perfect_fit = FALSE
            /\ pc = "idle"
            /\ method = "none"
            /\ max_iter = 0
            /\ i = 0
            /\ l_alpha = Fix(1)
            /\ l_beta = Fix(1)
            /\ ret = [op |-> "init", x |-> <<>>, err |-> "none", val |-> <<>>]
            /\ nfits = 0
            /\ completed = 0
            /\ exit_by = "none"
            /\ pre = [alpha |-> Fix(1), beta |-> Fix(1), logLike |-> <<NINF>>]
            /\ start = [i |-> 0, alpha |-> Fix(1), beta |-> Fix(1), len |-> 1]

\* ------------------------------------------------------------------------
\* _evidence_approx: the pieces of one iteration
\* ------------------------------------------------------------------------

\* n, m = np.shape(self.X)
n == Len(X)

m == Len(X[1])

\* dsq = self.d**2
dsq == Vec([j \in 1..Len(d) |-> FMul(d[j], d[j])])

\* mu = v.T . diag(d / (dsq + alpha/beta)) . u.T . Y
PosteriorMean(a, b) ==
    LET ratio == FDiv(a, b)
        p1_mu == MatMul(Transpose(v),
                        Diag(Vec([j \in 1..Len(d) |->
                                    FDiv(d[j], dsq[j] + ratio)])))
        p2_mu == MatVec(Transpose(u), Y)
    IN  MatVec(p1_mu, p2_mu)

\* error = Y - X . mu;  sqdErr = error . error
SqdErr(mu) ==
    LET error == VSub(Y, MatVec(X, mu))
    IN  Dot(error, error)

\* sqdErr / n < self.lambda_0
PerfectFit(sqdErr) == FDiv(sqdErr, Fix(n)) < lambda_0

Known(meth) == meth \in {"fixed-point", "EM"}

\* the new <<alpha, beta>> of method "fixed-point"
FixedPoint(a, b, mu, sqdErr) ==
    LET ratio == FDiv(a, b)
        gamma == SumSeq([j \in 1..Len(dsq) |-> FDiv(dsq[j], dsq[j] + ratio)])
    IN  <<FDiv(gamma, Dot(mu, mu)), FDiv(Fix(n) - gamma, sqdErr)>>

\* the new <<alpha, beta>> of method "EM": beta is computed from the new alpha
EM(a, b, mu, sqdErr) ==
    LET a2 == FDiv(Fix(m),
                   Dot(mu, mu)
                   + SumSeq([j \in 1..Len(dsq) |->
                               FDiv(SCALE, FMul(b, dsq[j]) + a)]))
        b2 == FDiv(Fix(n),
                   sqdErr
                   + SumSeq([j \in 1..Len(dsq) |->
                               FDiv(dsq[j], FMul(b, dsq[j]) + a2)]))
    IN  <<a2, b2>>

Update(meth, a, b, mu, sqdErr) ==
    IF meth = "fixed-point" THEN FixedPoint(a, b, mu, sqdErr)
    ELSE EM(a, b, mu, sqdErr)

\* log p(Y | X, alpha, beta), for the updated alpha and beta
log_like(a, b, mu, sqdErr) ==
    LET normaliser ==
            Half(m * Ln(a) + n * Ln(b)
                 - SumSeq([j \in 1..Len(dsq) |-> Ln(FMul(b, dsq[j]) + a)]))
    IN  normaliser
        - FMul(Half(a), SumSeq([j \in 1..Len(mu) |-> FMul(mu[j], mu[j])]))
        - FMul(Half(b), sqdErr)
        - FMul(Half(Fix(n)), Ln(TWO_PI))

\* Faulty variant of StopRule: the test starts one iteration late
StopRule_OffByOne(idx, ll) ==
    /\ idx >= 2
    /\ ll[Len(ll) - 1] # NINF
    /\ ll[Len(ll)] - ll[Len(ll) - 1] = thresh

\* if i >= 1: if logLike[-1] - logLike[-2] == thresh: break
\* (a finite entry minus -inf is +inf, which equals no thresh of the model)
StopRule(idx, ll) ==
    /\ idx >= 1
    /\ ll[Len(ll) - 1] # NINF
    /\ ll[Len(ll)] - ll[Len(ll) - 1] = thresh

\* ------------------------------------------------------------------------
\* fit
\* ------------------------------------------------------------------------

Methods == {"fixed-point", "EM", "variational"}

\* Faulty variant of FitCall: a re-fit starts again from the default
\* hyperparameters
FitCall_ResetHyper(meth, mi) ==
    /\ pc = "idle"
    /\ nfits < MaxFits
    /\ pc' = "loop"
    /\ method' = meth
    /\ max_iter' = mi
    /\ i' = 0
    /\ alpha' = Fix(1)
    /\ beta' = Fix(1)
    /\ l_alpha' = Fix(1)
    /\ l_beta' = Fix(1)
    /\ nfits' = nfits + 1
    /\ exit_by' = "none"
    /\ pre' = [alpha |-> alpha, beta |-> beta, logLike |-> logLike]
    /\ ret' = [op |-> "fit", x |-> <<>>, err |-> "running", val |-> <<>>]
    /\ UNCHANGED <<self_init, self_cfg, self_post, logLike, perfect_fit,
                   completed, start>>

\* Faulty variant of FitCall: every fit starts a new log-evidence trace
FitCall_ResetTrace(meth, mi) ==
    /\ pc = "idle"
    /\ nfits < MaxFits
    /\ pc' = "loop"
    /\ method' = meth
    /\ max_iter' = mi
    /\ i' = 0
    /\ l_alpha' = alpha
    /\ l_beta' = beta
    /\ logLike' = <<NINF>>
    /\ nfits' = nfits + 1
    /\ exit_by' = "none"
    /\ pre' = [alpha |-> alpha, beta |-> beta, logLike |-> logLike]
    /\ ret' = [op |-> "fit", x |-> <<>>, err |-> "running", val |-> <<>>]
    /\ UNCHANGED <<self_init, self_cfg, alpha, beta, self_post, perfect_fit,
                   completed, start>>

\* Faulty variant of FitCall: every fit clears the perfect-fit flag
FitCall_ResetFlag(meth, mi) ==
    /\ pc = "idle"
    /\ nfits < MaxFits
    /\ pc' = "loop"
    /\ method' = meth
    /\ max_iter' = mi
    /\ i' = 0
    /\ l_alpha' = alpha
    /\ l_beta' = beta
    /\ perfect_fit' = FALSE
    /\ nfits' = nfits + 1
    /\ exit_by' = "none"
    /\ pre' = [alpha |-> alpha, beta |-> beta, logLike |-> logLike]
    /\ ret' = [op |-> "fit", x |-> <<>>, err |-> "running", val |-> <<>>]
    /\ UNCHANGED <<self_init, self_cfg, alpha, beta, self_post, logLike,
                   completed, start>>

\* fit is called and _evidence_approx entered: alpha, beta = self.alpha, self.beta
FitCall(meth, mi) ==
    /\ pc = "idle"
    /\ nfits < MaxFits
    /\ pc' = "loop"
    /\ method' = meth
    /\ max_iter' = mi
    /\ i' = 0
    /\ l_alpha' = alpha
    /\ l_beta' = beta
    /\ nfits' = nfits + 1
    /\ exit_by' = "none"
    /\ pre' = [alpha |-> alpha, beta |-> beta, logLike |-> logLike]
    /\ ret' = [op |-> "fit", x |-> <<>>, err |-> "running", val |-> <<>>]
    /\ UNCHANGED <<self_init, self_cfg, alpha, beta, self_post, logLike,
                   perfect_fit, completed, start>>

\* Faulty variant of LoopBody: the iteration that ends by the perfect-fit guard
\* still appends a log-evidence entry
LoopBody_GuardAppends ==
    /\ pc = "loop"
    /\ i < max_iter
    /\ start' = [i |-> i, alpha |-> l_alpha, beta |-> l_beta,
                 len |-> Len(logLike)]
    /\ LET mu     == PosteriorMean(l_alpha, l_beta)
           sqdErr == SqdErr(mu)
           new    == Update(method, l_alpha, l_beta, mu, sqdErr)
           trace  == Append(logLike, log_like(new[1], new[2], mu, sqdErr))
       IN  IF PerfectFit(sqdErr)
           THEN \* self.perfect_fit = True; break
                /\ perfect_fit' = TRUE
                /\ pc' = "exit"
                /\ exit_by' = "guard"
                /\ logLike' = Append(logLike,
                                     log_like(l_alpha, l_beta, mu, sqdErr))
                /\ UNCHANGED <<i, l_alpha, l_beta, ret, completed>>
           ELSE IF ~Known(method)
           THEN \* raise ValueError: fit is left at once
                /\ pc' = "idle"
                /\ exit_by' = "raise"
                /\ ret' = [op |-> "fit", x |-> <<>>, err |-> "ValueError",
                           val |-> <<>>]
                /\ UNCHANGED <<i, l_alpha, l_beta, logLike, perfect_fit,
                               completed>>
           ELSE /\ l_alpha' = new[1]
                /\ l_beta' = new[2]
                /\ logLike' = trace
                /\ completed' = completed + 1
                /\ IF StopRule(i, trace)
                   THEN pc' = "exit" /\ exit_by' = "stop" /\ i' = i
                   ELSE pc' = "loop" /\ exit_by' = "none" /\ i' = i + 1
                /\ UNCHANGED <<perfect_fit, ret>>
    /\ UNCHANGED <<self_init, self_cfg, alpha, beta, self_post, method,
                   max_iter, nfits, pre>>

\* one iteration of the loop "for i in range(max_iter)"
LoopBody ==
    /\ pc = "loop"
    /\ i < max_iter
    /\ start' = [i |-> i, alpha |-> l_alpha, beta |-> l_beta,
                 len |-> Len(logLike)]
    /\ LET mu     == PosteriorMean(l_alpha, l_beta)
           sqdErr == SqdErr(mu)
           new    == Update(method, l_alpha, l_beta, mu, sqdErr)
           trace  == Append(logLike, log_like(new[1], new[2], mu, sqdErr))
       IN  IF PerfectFit(sqdErr)
           THEN \* self.perfect_fit = True; break
                /\ perfect_fit' = TRUE
                /\ pc' = "exit"
                /\ exit_by' = "guard"
                /\ UNCHANGED <<i, l_alpha, l_beta, logLike, ret, completed>>
           ELSE IF ~Known(method)
           THEN \* raise ValueError: fit is left at once
                /\ pc' = "idle"
                /\ exit_by' = "raise"
                /\ ret' = [op |-> "fit", x |-> <<>>, err |-> "ValueError",
                           val |-> <<>>]
                /\ UNCHANGED <<i, l_alpha, l_beta, logLike, perfect_fit,
                               completed>>
           ELSE /\ l_alpha' = new[1]
                /\ l_beta' = new[2]
                /\ logLike' = trace
                /\ completed' = completed + 1
                /\ IF StopRule(i, trace)
                   THEN pc' = "exit" /\ exit_by' = "stop" /\ i' = i
                   ELSE pc' = "loop" /\ exit_by' = "none" /\ i' = i + 1
                /\ UNCHANGED <<perfect_fit, ret>>
    /\ UNCHANGED <<self_init, self_cfg, alpha, beta, self_post, method,
                   max_iter, nfits, pre>>

\* range(max_iter) is exhausted
LoopEnd ==
    /\ pc = "loop"
    /\ i >= max_iter
    /\ pc' = "exit"
    /\ exit_by' = "budget"
    /\ UNCHANGED <<self_init, self_cfg, alpha, beta, self_post, logLike,
                   perfect_fit, locals, ret, nfits, completed, pre, start>>

\* _posterior_params(alpha, beta)
posterior_params(a, b) ==
    LET dg == Vec([j \in 1..Len(d) |->
                     FDiv(d[j], FMul(d[j], d[j]) + FDiv(a, b))])
        p1 == MatMul(Transpose(v), Diag(dg))
        p2 == MatVec(Transpose(u), Y)
    IN  [precision |-> MatAdd(MatScale(b, MatMul(Transpose(X), X)),
                              MatScale(a, Eye(m))),
         diag      |-> dg,
         w_mu      |-> MatVec(p1, p2)]

\* scipy.linalg.pinvh of a symmetric 1 x 1 matrix, or of a symmetric positive
\* definite 2 x 2 matrix (by its Schur complement)
pinvh(P) ==
    IF Len(P) = 1
    THEN <<<<IF P[1][1] = 0 THEN 0 ELSE FDiv(SCALE, P[1][1])>>>>
    ELSE LET r == FDiv(P[1][2], P[1][1])
             s == P[2][2] - FMul(P[1][2], r)
         IN  <<<<FDiv(SCALE, P[1][1]) + FDiv(FMul(r, r), s), 0 - FDiv(r, s)>>,
               <<0 - FDiv(r, s), FDiv(SCALE, s)>>>>

\* Faulty variant of FitReturn: the posterior computation stores
\* d / (d**2 + alpha/beta) in self.d instead of self.diag
FitReturn_OverwriteD ==
    /\ pc = "exit"
    /\ alpha' = l_alpha
    /\ beta' = l_beta
    /\ LET post == posterior_params(l_alpha, l_beta)
       IN  /\ w_mu' = post.w_mu
           /\ w_precision' = post.precision
           /\ d' = post.diag
           /\ D' = pinvh(post.precision)
    /\ pc' = "idle"
    /\ ret' = [op |-> "fit", x |-> <<>>, err |-> "none", val |-> <<>>]
    /\ UNCHANGED <<mu_X, X, mu_Y, Y, u, v, diag, self_cfg, logLike,
                   perfect_fit, locals, history>>

\* after the loop: self.alpha, self.beta = alpha, beta; then fit computes the
\* posterior of the weights and returns
FitReturn ==
    /\ pc = "exit"
    /\ alpha' = l_alpha
    /\ beta' = l_beta
    /\ LET post == posterior_params(l_alpha, l_beta)
       IN  /\ w_mu' = post.w_mu
           /\ w_precision' = post.precision
           /\ diag' = post.diag
           /\ D' = pinvh(post.precision)
    /\ pc' = "idle"
    /\ ret' = [op |-> "fit", x |-> <<>>, err |-> "none", val |-> <<>>]
    /\ UNCHANGED <<self_init, self_cfg, logLike, perfect_fit, locals, history>>

\* ------------------------------------------------------------------------
\* predict and predict_dist
\* ------------------------------------------------------------------------

\* Query matrices x, as the caller passes them: 1 or 2 rows of 1, 2 or 3
\* features
Queries ==
    { <<<<3>>>>,
      <<<<1, 2>>>>,
      <<<<1>>, <<3>>>>,
      <<<<1, 2, 3>>>> }

\* numpy broadcasts two axes of lengths p and q when they agree or one is 1
Broadcasts(p, q) == p = q \/ p = 1 \/ q = 1

\* x - self.mu_X, for a matrix x and the vector mu_X, where they broadcast
SubRow(x, mu) ==
    LET q == Len(x[1])
        w == Max(q, Len(mu))
    IN  Vec([r \in 1..Len(x) |->
               Vec([c \in 1..w |-> x[r][IF q = 1 THEN 1 ELSE c]
                                   - mu[IF Len(mu) = 1 THEN 1 ELSE c]])])

\* predict(x): what it raises, or the value it returns
predict(x) ==
    IF ~Broadcasts(Len(x[1]), Len(mu_X))
    THEN [err |-> "ValueError", val |-> <<>>]           \* x - self.mu_X
    ELSE LET xc == SubRow(x, mu_X)
         IN  IF w_mu = None
             THEN [err |-> "TypeError", val |-> <<>>]   \* np.dot(x, None)
             ELSE IF Len(xc[1]) # Len(w_mu)
             THEN [err |-> "ValueError", val |-> <<>>]  \* np.dot: shapes
             ELSE [err |-> "none",
                   val |-> Vec([r \in 1..Len(xc) |-> Dot(xc[r], w_mu) + mu_Y])]

\* np.ones(k) * np.sum((self.Y - Y_hat)**2) / n, where Y and Y_hat broadcast
RssVariance(Y_hat) ==
    LET k   == Len(Y_hat)
        w   == Max(k, Len(Y))
        sq  == [r \in 1..w |->
                  LET e == Y[IF Len(Y) = 1 THEN 1 ELSE r]
                           - Y_hat[IF k = 1 THEN 1 ELSE r]
                  IN  FMul(e, e)]
        rss == SumSeq(sq)
    IN  Vec([r \in 1..k |-> FDiv(FMul(SCALE, rss), Fix(Len(X)))])

\* predict_dist(x): what it raises, or the [mean, variance] it returns
predict_dist(x) ==
    IF ~Broadcasts(Len(x[1]), Len(mu_X))
    THEN [err |-> "ValueError", val |-> <<>>]           \* x - self.mu_X
    ELSE LET xc == SubRow(x, mu_X)
         IN  IF w_mu = None
             THEN [err |-> "TypeError", val |-> <<>>]   \* np.dot(x, None)
             ELSE IF Len(xc[1]) # Len(w_mu)
             THEN [err |-> "ValueError", val |-> <<>>]  \* np.dot: shapes
             ELSE LET Y_hat == Vec([r \in 1..Len(xc) |-> Dot(xc[r], w_mu)])
                      y_hat == Vec([r \in 1..Len(xc) |-> Y_hat[r] + mu_Y])
                      xD    == MatMul(xc, D)
                  IN  IF ~perfect_fit
                      THEN [err |-> "none",
                            val |-> <<y_hat,
                                      Vec([r \in 1..Len(xc) |->
                                             FDiv(SCALE, beta)
                                             + Dot(xD[r], xc[r])])>>]
                      ELSE IF ~Broadcasts(Len(Y), Len(Y_hat))
                      THEN [err |-> "ValueError", val |-> <<>>]  \* Y - Y_hat
                      ELSE [err |-> "none",
                            val |-> <<y_hat, RssVariance(Y_hat)>>]

Predict(x) ==
    /\ pc = "idle"
    /\ LET res == predict(ToFix(x))
       IN  ret' = [op |-> "predict", x |-> x, err |-> res.err, val |-> res.val]
    /\ UNCHANGED <<self_init, self_cfg, alpha, beta, self_post, logLike,
                   perfect_fit, pc, locals, history>>

PredictDist(x) ==
    /\ pc = "idle"
    /\ LET res == predict_dist(ToFix(x))
       IN  ret' = [op |-> "predict_dist", x |-> x, err |-> res.err,
                   val |-> res.val]
    /\ UNCHANGED <<self_init, self_cfg, alpha, beta, self_post, logLike,
                   perfect_fit, pc, locals, history>>

\* ------------------------------------------------------------------------
\* The specification
\* ------------------------------------------------------------------------

Next ==
    \/ \E meth \in Methods, mi \in 0..MaxIter : FitCall(meth, mi)
    \/ LoopBody
    \/ LoopEnd
    \/ FitReturn
    \/ \E x \in Queries : Predict(x)
    \/ \E x \in Queries : PredictDist(x)

Spec == Init /\ [][Next]_vars

\* ------------------------------------------------------------------------
\* Properties
\* ------------------------------------------------------------------------

\* a fit call has returned or raised, and no call was made since
FitEnded == pc = "idle" /\ ret.op = "fit"

\* the last entry of a trace minus the one before it
LastIncrement(ll) == ll[Len(ll)] - ll[Len(ll) - 1]

\* a step that completes an iteration: it appends one log-evidence entry
CompletesIteration == pc = "loop" /\ Len(logLike') = Len(logLike) + 1

\* x . w_mu for the centred query x, row by row
Projection(x) ==
    LET xc == SubRow(ToFix(x), mu_X)
    IN  Vec([r \in 1..Len(xc) |-> Dot(xc[r], w_mu)])

\* the mean squared training residual: sum_i (Y_i - X_i . w_mu)^2 / n
TrainingMse == FDiv(SqdErr(w_mu), Fix(n))

\* C1: every fit call with a method name other than 'fixed-point' or 'EM'
\* raises ValueError, whatever max_iter and the state of the model.
\* Fails: with max_iter = 0 the loop never tests the name, and an iteration
\* ended by the perfect-fit guard leaves the loop before the test.
C1_InvalidMethodRaises ==
    (FitEnded /\ ~Known(method)) => ret.err = "ValueError"

\* C2: when fit raises ValueError for an unrecognized method, alpha and beta
\* are what they were before the call, on a first fit and on a re-fit.
C2_RaiseKeepsHyper ==
    (FitEnded /\ ret.err = "ValueError") =>
        (alpha = pre.alpha /\ beta = pre.beta)

\* a re-fit raised, on a model whose first fit had moved alpha and beta
C2_Witness ==
    /\ FitEnded
    /\ ret.err = "ValueError"
    /\ nfits = 2
    /\ alpha # Fix(1)
    /\ beta # Fix(1)

\* C3: with the perfect-fit flag set, predict_dist(x) returns, for every
\* query x of m features and any number of rows, a variance vector whose
\* every entry is the mean squared training residual.
\* Fails: the residual is taken against the prediction for the query, not
\* for the training rows.
C3_VarianceIsTrainingMse ==
    (pc = "idle" /\ perfect_fit /\ ret.op = "predict_dist"
       /\ Len(ret.x[1]) = m) =>
        /\ ret.err = "none"
        /\ \A r \in 1..Len(ret.x) : ret.val[2][r] = TrainingMse

\* C4: constructed with bias_term = False, predict and predict_dist return
\* the mean (x - mu_X) . w_mu without mu_Y; with the flag enabled they
\* return (x - mu_X) . w_mu + mu_Y.
\* Fails: mu_Y is added whatever the flag.
C4_BiasFollowsFlag ==
    (pc = "idle" /\ ret.op \in {"predict", "predict_dist"}
       /\ ret.err = "none") =>
        LET mean == IF ret.op = "predict" THEN ret.val ELSE ret.val[1]
            xw   == Projection(ret.x)
        IN  \A r \in 1..Len(ret.x) :
                mean[r] = IF bias_term = <<>> THEN xw[r] ELSE xw[r] + mu_Y

\* C5: predict on a fitted model with a query whose feature count differs
\* from m raises an error and returns no value.
\* Fails: a query of one column broadcasts against mu_X.
C5_MismatchRaises ==
    (pc = "idle" /\ ret.op = "predict" /\ w_mu # None
       /\ Len(ret.x[1]) # m) =>
        ret.err # "none"

\* C6: the log-evidence trace is append-only: it starts with -inf, no step
\* changes or removes an entry, and its length is 1 plus the number of
\* iterations completed over all fit calls.
C6_TraceAppendOnly ==
    /\ [](logLike[1] = NINF /\ Len(logLike) = 1 + completed)
    /\ [][/\ Len(logLike') >= Len(logLike)
          /\ SubSeq(logLike', 1, Len(logLike)) = logLike]_vars

\* a re-fit has completed iterations on top of those of the first fit
C6_Witness ==
    /\ FitEnded
    /\ nfits = 2
    /\ Len(pre.logLike) > 1
    /\ Len(logLike) > Len(pre.logLike)

\* C7: the perfect-fit flag is false at construction, and once set it stays
\* set through every later fit, predict and predict_dist.
C7_FlagIrreversible ==
    /\ ~perfect_fit
    /\ [][perfect_fit => perfect_fit']_vars

\* predict_dist answers by the perfect-fit formula after a re-fit in which
\* the guard did not fire
C7_Witness ==
    /\ pc = "idle"
    /\ perfect_fit
    /\ nfits = 2
    /\ exit_by = "budget"
    /\ ret.op = "predict_dist"
    /\ ret.err = "none"
    /\ ret.val[2] = RssVariance(Projection(ret.x))

\* C8: the fields set at construction (X, Y, mu_X, mu_Y, u, d, v) are never
\* changed by fit, predict or predict_dist.
C8_ConstructionFrozen == [][UNCHANGED self_init]_vars

\* two fits have run iterations on the same decomposition
C8_Witness ==
    /\ FitEnded
    /\ ret.err = "none"
    /\ nfits = 2
    /\ completed >= 2
    /\ Len(pre.logLike) > 1
    /\ w_mu = posterior_params(alpha, beta).w_mu

\* C9: a fit whose loop ended by the perfect-fit guard leaves alpha and beta
\* as they were at the start of that iteration, and adds no log-evidence
\* entry for it; when that iteration was the first of the call, alpha, beta
\* and the trace are what they were before the call.
C9_GuardSkipsUpdate ==
    (FitEnded /\ ret.err = "none" /\ exit_by = "guard") =>
        /\ alpha = start.alpha
        /\ beta = start.beta
        /\ Len(logLike) = start.len
        /\ start.i = 0 =>
              (alpha = pre.alpha /\ beta = pre.beta /\ logLike = pre.logLike)

\* the guard fired in a later iteration, after alpha and beta had moved
C9_Witness ==
    /\ FitEnded
    /\ exit_by = "guard"
    /\ start.i >= 1
    /\ alpha # pre.alpha
    /\ Len(logLike) > Len(pre.logLike)

\* C10, as stated: after a completed iteration before which the trace holds
\* an entry of any earlier iteration (of this fit call or of an earlier one),
\* an increment equal to thresh stops the loop: no further iteration runs.
\* Fails: the first iteration of a re-fit never applies the test.
C10_StopAfterAnyEarlierIteration ==
    [][(CompletesIteration /\ Len(logLike) >= 2
          /\ LastIncrement(logLike') = thresh) =>
        (pc' = "exit" \/ i' >= max_iter)]_vars

\* C10, amended: after a completed iteration that is not the first of its
\* fit call (i >= 1), an increment equal to thresh stops the loop.
C10_StopAtThreshold ==
    [][(CompletesIteration /\ i >= 1
          /\ LastIncrement(logLike') = thresh) =>
        pc' = "exit"]_vars

\* the rule has stopped a loop that had iterations left
C10_Witness ==
    /\ pc = "exit"
    /\ exit_by = "stop"
    /\ i >= 1
    /\ i + 1 < max_iter
    /\ LastIncrement(logLike) = thresh

=============================================================================
